---- MODULE Spec2Model ----
(***************************************************************************)
(* Model of iuploader.py: one run of Uploader.process, from login to the   *)
(* aggregate returned by Uploader.upload, with the worker pool of          *)
(* Uploader.upload and the per-file task Uploader._upload_worker.          *)
(*                                                                         *)
(* Paths are numbers (their order is the lexicographic order of the paths).*)
(* Every network response and every file read is an input drawn when the   *)
(* call is made.                                                           *)
(***************************************************************************)
EXTENDS Integers, Sequences, FiniteSets, TLC

\* ------------------------------------------------------------------ bounds
\* number of files under the root directories
MaxFiles == 2
\* max_workers=None: the pool's default size (os.cpu_count() of the machine)
DefaultWorkers == 2
\* longest -t / -p list given on the command line of a full run
MaxRunNames == 1
\* longest list of names given to load_tags / load_playlists on its own
MaxNames == 2
\* most entries of a server catalog (tags or playlists)
MaxCatalog == 2
\* most entries of a catalog in the library response of a full run
MaxRunCatalog == 1
\* directories below the top directory, and root directories given to a run
MaxDirs == 2
MaxRoots == 2

Paths == 1..MaxFiles
Contents == {"A", "B"}
Names == {"Rock", "Jazz"}
None == "None"

\* ----------------------------------------------------------------- helpers
RECURSIVE SeqsUpTo(_, _)
SeqsUpTo(S, n) ==
    IF n = 0 THEN {<<>>}
    ELSE LET shorter == SeqsUpTo(S, n - 1)
         IN  shorter \cup {Append(s, x) : s \in {t \in shorter : Len(t) = n - 1}, x \in S}

Range(s) == {s[i] : i \in DOMAIN s}

\* the orders in which a set can be iterated
Orders(S) == {s \in [1..Cardinality(S) -> S] : Range(s) = S}

RECURSIVE Sorted_descending(_)
Sorted_descending(S) ==
    IF S = {} THEN <<>>
    ELSE LET m == CHOOSE x \in S : \A y \in S : x >= y
         IN  <<m>> \o Sorted_descending(S \ {m})

\* sorted(files): ascending sequence of a set of paths
RECURSIVE Sorted(_)
Sorted(S) ==
    IF S = {} THEN <<>>
    ELSE LET m == CHOOSE x \in S : \A y \in S : x <= y
         IN  <<m>> \o Sorted(S \ {m})

\* a dict as the sequence of its items, in insertion order
DictKeys(d) == {d[i][1] : i \in DOMAIN d}
DictSet(d, k, v) ==
    IF k \in DictKeys(d)
    THEN [i \in DOMAIN d |-> IF d[i][1] = k THEN <<k, v>> ELSE d[i]]
    ELSE Append(d, <<k, v>>)

\* hashlib.md5().hexdigest() of a file's bytes: equal contents, equal digests
hexdigest(c) == IF c = "A" THEN "md5A" ELSE "md5B"
Digests == {hexdigest(c) : c \in Contents}

\* ------------------------------------------------- TRACK_ID_RE (line 42)
\* A message is a sequence of pieces of text. TRACK_ID_RE.match is anchored at
\* the start only: "File ", anything (greedy), " (", one or more digits,
\* ") uploaded successfully and is being processed", then any one character.
FILE == "File "
OPEN == " ("
CLOSE == ") uploaded successfully and is being processed"
DigitTokens == {"1", "2"}
DigitVal(t) == IF t = "1" THEN 1 ELSE 2

RECURSIVE DigitsToInt(_)
DigitsToInt(ds) ==
    IF ds = <<>> THEN 0
    ELSE 10 * DigitsToInt(SubSeq(ds, 1, Len(ds) - 1)) + DigitVal(ds[Len(ds)])

\* the pattern without its last ".": nothing need follow the closing text
MatchSplits_noLastChar(msg) ==
    {ij \in (DOMAIN msg) \X (DOMAIN msg) :
        /\ Len(msg) >= 1 /\ msg[1] = FILE
        /\ ij[1] >= 2 /\ msg[ij[1]] = OPEN
        /\ ij[2] > ij[1] + 1 /\ msg[ij[2]] = CLOSE
        /\ \A k \in (ij[1] + 1)..(ij[2] - 1) : msg[k] \in DigitTokens}

\* the pairs (i, j): " (" at i, digits between, the closing text at j, and one
\* more character after it
MatchSplits(msg) ==
    {ij \in (DOMAIN msg) \X (DOMAIN msg) :
        /\ Len(msg) >= 1 /\ msg[1] = FILE
        /\ ij[1] >= 2 /\ msg[ij[1]] = OPEN
        /\ ij[2] > ij[1] + 1 /\ msg[ij[2]] = CLOSE
        /\ \A k \in (ij[1] + 1)..(ij[2] - 1) : msg[k] \in DigitTokens
        /\ ij[2] + 1 <= Len(msg)}

TRACK_ID_RE_match(msg) == MatchSplits(msg) # {}

\* match.group("trackid"), as int: the greedy ".*" takes the last split
TrackIdOf(msg) ==
    LET ij == CHOOSE x \in MatchSplits(msg) : \A y \in MatchSplits(msg) : y[1] <= x[1]
    IN  DigitsToInt(SubSeq(msg, ij[1] + 1, ij[2] - 1))

\* upload messages the server may send
MsgUploaded(d) == <<FILE, "a.mp3", OPEN, d, CLOSE, ".">>
MsgNewWording == <<"Track ", "a.mp3", OPEN, "1", CLOSE, ".">>
MsgNoPeriod == <<FILE, "a.mp3", OPEN, "2", CLOSE>>
Messages == {MsgUploaded(d) : d \in DigitTokens} \cup {MsgNewWording, MsgNoPeriod}

\* ------------------------------------------------ IBroadcastClient._request
\* A response: the HTTP status is 2xx or not, and the JSON's "result" field is
\* true, false or missing.
Statuses ==
    {[ok |-> FALSE, result |-> "missing"], [ok |-> TRUE, result |-> "missing"],
     [ok |-> TRUE, result |-> "false"], [ok |-> TRUE, result |-> "true"]}

\* what _request raises for a response, or None when it returns the JSON
_request(resp, check_result) ==
    IF ~resp.ok THEN "HTTPError"
    ELSE IF check_result /\ resp.result = "missing" THEN "KeyError"
    ELSE IF check_result /\ resp.result = "false" THEN "ValueError"
    ELSE None

\* --------------------------------------------------------- the file system
\* directory 0 is the top; a tree gives every other directory its parent
Dirs == 0..MaxDirs
Trees == {t \in [1..MaxDirs -> Dirs] : \A d \in 1..MaxDirs : t[d] < d}

\* a file name is its pieces: a piece is plain text or a dot and the text
\* after it
Dotted == {".mp3", ".MP3", ".flac"}
FileNames == {<<"a", ".mp3">>, <<"a", ".MP3">>, <<"a", ".flac">>, <<".mp3">>, <<"a">>,
              <<"a", ".flac", ".mp3">>}

\* os.path.splitext(filename)[1]: from the last dot on; leading dots of the
\* name do not start an extension
splitext(name) ==
    IF Len(name) > 1 /\ name[Len(name)] \in Dotted THEN name[Len(name)] ELSE ""
Extensions == {".mp3", ".flac"}

\* the file system of a full run: a chain of directories, a file in each
RunFs ==
    [parent |-> [d \in 1..MaxDirs |-> d - 1],
     dir |-> [p \in Paths |-> IF p <= MaxDirs THEN p ELSE 0],
     name |-> [p \in Paths |-> IF p % 2 = 1 THEN <<"a", ".mp3">> ELSE <<"a", ".flac">>]]

walk_topOnly(tree, top) == {top}

\* line 137: the directories os.walk(top) yields
RECURSIVE walk(_, _)
walk(tree, top) ==
    {top} \cup UNION {walk(tree, d) : d \in {c \in 1..MaxDirs : tree[c] = top}}

\* --------------------------------------------- load_tags / load_playlists
RECURSIVE ScanCatalog_keepMissing(_, _, _)
ScanCatalog_keepMissing(items, names, st) ==
    IF items = <<>> THEN st
    ELSE LET id == items[1][1]
             name == items[1][2]
             next == IF name \in Range(names)
                     THEN [st EXCEPT !.dict = DictSet(st.dict, name, id)]
                     ELSE st
         IN  ScanCatalog_keepMissing(Tail(items), names, next)

\* lines 177-182 and 200-206: scan the catalog's items (<<id, name>>, in the
\* dict's order), collecting the ids of the requested names; set.remove
\* raises KeyError for a name that is no longer in the set
RECURSIVE ScanCatalog(_, _, _)
ScanCatalog(items, names, st) ==
    IF items = <<>> \/ st.exc # None THEN st
    ELSE LET id == items[1][1]
             name == items[1][2]
             next == IF name \in Range(names)
                     THEN [dict |-> DictSet(st.dict, name, id),
                           missing |-> st.missing \ {name},
                           exc |-> IF name \in st.missing THEN None ELSE "KeyError(name)"]
                     ELSE st
         IN  ScanCatalog(Tail(items), names, next)

\* lines 186-187 and 210-211: one create-call per missing name, in the set's
\* iteration order; `made` of them return an id, ids being new to the catalog
RECURSIVE CreateMissing(_, _, _, _)
CreateMissing(dict, order, made, firstId) ==
    IF made = 0 \/ order = <<>> THEN dict
    ELSE CreateMissing(DictSet(dict, order[1], firstId), Tail(order), made - 1, firstId + 1)

\* library["tags"].items(): ids are the keys, the name is inside
TagItems(tags) == [i \in DOMAIN tags |-> <<i, tags[i]>>]

\* lines 196-203: a playlist is a list of values whose positions come from
\* the "map" field; fields sorted by position, zipped with the list
FieldNames == {"name", "tracks"}
FieldMaps == {[name |-> 0, tracks |-> 1], [name |-> 1, tracks |-> 0]}
FieldRank(fmap, f) == 1 + Cardinality({g \in FieldNames : fmap[g] < fmap[f]})
PlaylistItems(playlists) ==
    [i \in DOMAIN playlists.lists |->
        <<i, playlists.lists[i][FieldRank(playlists.map, "name")]>>]

\* the catalogs of at most n entries a library response may carry
TagCatalogs(n) == SeqsUpTo(Names, n)
InfoList(fmap, name) == IF fmap.name = 0 THEN <<name, "tracks">> ELSE <<"tracks", name>>
PlaylistCatalogs(n) ==
    {[map |-> fmap, lists |-> [i \in DOMAIN ns |-> InfoList(fmap, ns[i])]] :
        fmap \in FieldMaps, ns \in SeqsUpTo(Names, n)}

ScanStart_nothingMissing(names) == [dict |-> <<>>, missing |-> {}, exc |-> None]

\* lines 177-178 and 200-201
ScanStart(names) == [dict |-> <<>>, missing |-> Range(names), exc |-> None]

\* every way a resolution can go: the scan, then the create-calls in some
\* order, of which the first `made` succeed and the next one, if any, fails
\* with the exception `exc`; `created` lists the create-calls issued
Resolve(mode, items, names) ==
    LET scan == ScanCatalog(items, names, ScanStart(names))
    IN  IF scan.exc # None
        THEN {[exc |-> scan.exc, dict |-> scan.dict, created |-> <<>>]}
        ELSE {[exc |-> IF made < Len(order) THEN _request(resp, TRUE) ELSE None,
               dict |-> CreateMissing(scan.dict, order, made, Len(items) + 1),
               created |-> [i \in 1..(IF made < Len(order) THEN made + 1 ELSE made) |->
                               <<mode, order[i]>>]] :
                 order \in Orders(scan.missing), made \in 0..Cardinality(scan.missing),
                 resp \in {r \in Statuses : _request(r, TRUE) # None}}

\* lines 173-189
load_tags(library, names) == Resolve("createtag", TagItems(library.tags), names)

\* lines 191-213
load_playlists(library, names) ==
    Resolve("createplaylist", PlaylistItems(library.playlists), names)

\* ----------------------------------------------------------------- state
VARIABLES
    skip_duplicates,  \* --no-skip-duplicates not given
    parallel,         \* --no-parallel not given
    tag_names,        \* -t names
    playlist_names,   \* -p names
    pc,               \* where Uploader.process is
    exc,              \* the exception that left process uncaught, or None
    stopped,          \* the phase in which the run stopped early, or None
    session,          \* client.user_id / client.token are set
    filetypes,        \* supported extensions
    files,            \* the discovered candidate set
    catalog,          \* the library fetched by load_library_info
    library_info,     \* {"tags": name -> id, "playlists": name -> id}
    library,          \* the remote md5 set, or None (none |-> TRUE)
    submitted,        \* the promises made so far, in order
    task,             \* each file's _upload_worker call
    results,          \* the aggregate built by upload
    upload_ret,       \* how upload ended: None, "returned" or "raised"
    calls,            \* the requests issued so far
    parent_dirs,      \* the root directories given on the command line
    fs                \* the directory tree, and where each regular file is

vars == <<skip_duplicates, parallel, tag_names, playlist_names, pc, exc, stopped,
          session, filetypes, files, catalog, library_info, library, submitted,
          task, results, upload_ret, calls, parent_dirs, fs>>

\* what no step of a run changes: its arguments and the file system
args == <<skip_duplicates, parallel, tag_names, playlist_names, parent_dirs, fs>>

NoLibrary == [none |-> TRUE, md5 |-> {}]
NoCatalog == [tags |-> <<>>, playlists |-> [map |-> [name |-> 0, tracks |-> 1], lists |-> <<>>]]
NoInfo == [tags |-> <<>>, playlists |-> <<>>]
NoRetval == [result |-> "none"]

IdleTask ==
    [pc |-> "none", md5 |-> None, track_id |-> 0, next |-> 0,
     jsoned |-> [result |-> "absent", message |-> <<>>],
     retval |-> NoRetval, uploads |-> 0, tagged |-> <<>>, appended |-> <<>>]

NoCalls == [library |-> 0, md5 |-> 0, created |-> <<>>]

InitRun ==
    /\ pc = "login" /\ exc = None /\ stopped = None /\ session = FALSE
    /\ filetypes = {} /\ files = {} /\ catalog = NoCatalog
    /\ library_info = NoInfo /\ library = NoLibrary
    /\ submitted = <<>> /\ task = [p \in Paths |-> IdleTask]
    /\ results = [uploaded |-> <<>>, skipped |-> <<>>, error |-> <<>>]
    /\ upload_ret = None /\ calls = NoCalls

Init ==
    /\ skip_duplicates \in BOOLEAN /\ parallel \in BOOLEAN
    /\ tag_names \in SeqsUpTo({"Rock"}, MaxRunNames)
    /\ playlist_names \in SeqsUpTo({"Jazz"}, MaxRunNames)
    /\ parent_dirs = <<0>> /\ fs = RunFs
    /\ InitRun

\* the failure is swallowed and the run goes on to the upload
Stop_swallowed(e) == pc' = "upload" /\ exc' = e /\ stopped' = pc

\* the run ends in the phase it is in: by a return of process (e = None) or
\* by an exception nothing catches
Stop(e) == pc' = "done" /\ exc' = e /\ stopped' = pc

\* -------------------------------------------------------- Uploader.process
\* lines 92-99 and 117-121
Login ==
    /\ pc = "login"
    /\ \E resp \in Statuses, body \in {"user", "message", "empty"} :
        LET e == _request(resp, TRUE)
            raised == IF e # None THEN e
                      ELSE IF body = "user" THEN None
                      ELSE IF body = "message" THEN "ValueError" ELSE "KeyError"
        IN  /\ session' = (raised = None)
            /\ IF raised = None THEN pc' = "filetypes" /\ UNCHANGED <<exc, stopped>>
               ELSE IF raised = "ValueError" THEN Stop(None)
               ELSE Stop(raised)
    /\ UNCHANGED <<args, filetypes, files, catalog, library_info, library, submitted,
                   task, results, upload_ret, calls>>

\* lines 101-108 and 123-127
SupportedFiletypes ==
    /\ pc = "filetypes"
    /\ \E resp \in Statuses, body \in {"user", "message", "empty"}, exts \in SUBSET Extensions :
        LET e == _request(resp, TRUE)
            raised == IF e # None THEN e
                      ELSE IF body = "user" THEN None
                      ELSE IF body = "message" THEN "ValueError" ELSE "KeyError"
        IN  /\ filetypes' = IF raised = None THEN exts ELSE filetypes
            /\ IF raised = None THEN pc' = "discover" /\ UNCHANGED <<exc, stopped>>
               ELSE IF raised = "ValueError" THEN Stop(None)
               ELSE Stop(raised)
    /\ UNCHANGED <<args, session, files, catalog, library_info, library, submitted,
                   task, results, upload_ret, calls>>

\* lines 134-141
discover_files(root_directories, types) ==
    UNION {{p \in Paths : /\ fs.dir[p] \in walk(fs.parent, root_directories[i])
                          /\ splitext(fs.name[p]) \in types} :
              i \in DOMAIN root_directories}

Discover ==
    /\ pc = "discover"
    /\ files' = discover_files(parent_dirs, filetypes)
    /\ pc' = "confirm"
    /\ UNCHANGED <<args, exc, stopped, session, filetypes, catalog, library_info, library,
                   submitted, task, results, upload_ret, calls>>

\* lines 143-164: str.lower of the operator's answers
lower(r) == IF r = "L" THEN "l" ELSE IF r = "U" THEN "u" ELSE r
Answers == {"l", "L", "u", "U", "q"}
confirm(first, second) ==
    LET response == IF lower(first) = "l" THEN second ELSE first
    IN  lower(response) = "u"

Confirm_skipResolution ==
    /\ pc = "confirm"
    /\ \E first \in Answers, second \in Answers :
        IF confirm(first, second)
        THEN pc' = "upload" /\ UNCHANGED <<exc, stopped>>
        ELSE Stop(None)
    /\ UNCHANGED <<args, session, filetypes, files, catalog, library_info, library,
                   submitted, task, results, upload_ret, calls>>

\* lines 129-132
Confirm ==
    /\ pc = "confirm"
    /\ \E first \in Answers, second \in Answers :
        IF confirm(first, second)
        THEN pc' = "load_library" /\ UNCHANGED <<exc, stopped>>
        ELSE Stop(None)
    /\ UNCHANGED <<args, session, filetypes, files, catalog, library_info, library,
                   submitted, task, results, upload_ret, calls>>

\* line 167: client.library_request()["library"]
LibraryRequest ==
    /\ pc = "load_library"
    /\ calls' = [calls EXCEPT !.library = @ + 1]
    /\ \E resp \in Statuses, tags \in TagCatalogs(MaxRunCatalog),
          playlists \in PlaylistCatalogs(MaxRunCatalog) :
        LET e == _request(resp, TRUE)
        IN  IF e = None
            THEN /\ catalog' = [tags |-> tags, playlists |-> playlists]
                 /\ library_info' = [tags |-> <<>>, playlists |-> <<>>]
                 /\ pc' = "load_tags" /\ UNCHANGED <<exc, stopped>>
            ELSE Stop(e) /\ UNCHANGED <<catalog, library_info>>
    /\ UNCHANGED <<args, session, filetypes, files, library, submitted, task, results,
                   upload_ret>>

\* line 169
LoadTags ==
    /\ pc = "load_tags"
    /\ \E out \in load_tags(catalog, tag_names) :
        /\ calls' = [calls EXCEPT !.created = @ \o out.created]
        /\ IF out.exc = None
           THEN /\ library_info' = [library_info EXCEPT !.tags = out.dict]
                /\ pc' = "load_playlists" /\ UNCHANGED <<exc, stopped>>
           ELSE Stop(out.exc) /\ UNCHANGED library_info
    /\ UNCHANGED <<args, session, filetypes, files, catalog, library, submitted, task,
                   results, upload_ret>>

\* line 170, and the return of load_library_info
LoadPlaylists ==
    /\ pc = "load_playlists"
    /\ \E out \in load_playlists(catalog, playlist_names) :
        /\ calls' = [calls EXCEPT !.created = @ \o out.created]
        /\ IF out.exc = None
           THEN /\ library_info' = [library_info EXCEPT !.playlists = out.dict]
                /\ pc' = "upload" /\ UNCHANGED <<exc, stopped>>
           ELSE Stop(out.exc) /\ UNCHANGED library_info
    /\ UNCHANGED <<args, session, filetypes, files, catalog, library, submitted, task,
                   results, upload_ret>>

\* ---------------------------------------------------------- Uploader.upload
\* line 237
max_workers == IF parallel THEN DefaultWorkers ELSE 1

Running == {p \in Paths : task[p].pc \in {"check", "upload", "tag", "playlist"}}
Finished == {p \in Paths : task[p].pc \in {"done", "collected"}}
AllSubmitted == Len(submitted) = Cardinality(files)

\* the md5 set fetched whatever skip_duplicates says
FetchLibrary_always ==
    /\ pc = "upload"
    /\ calls' = [calls EXCEPT !.md5 = @ + 1]
    /\ \E resp \in Statuses, md5 \in SUBSET Digests :
        LET e == _request(resp, TRUE)
        IN  IF e = None
            THEN /\ library' = [none |-> FALSE, md5 |-> md5]
                 /\ pc' = "pool" /\ UNCHANGED <<exc, stopped, upload_ret>>
            ELSE /\ Stop(e) /\ upload_ret' = "raised"
                 /\ UNCHANGED library
    /\ catalog' = NoCatalog
    /\ UNCHANGED <<args, session, filetypes, files, library_info, submitted,
                   task, results>>

\* lines 230-233: the md5 set is fetched with check_result left at True
FetchLibrary ==
    /\ pc = "upload"
    /\ IF skip_duplicates
       THEN /\ calls' = [calls EXCEPT !.md5 = @ + 1]
            /\ \E resp \in Statuses, md5 \in SUBSET Digests :
                LET e == _request(resp, TRUE)
                IN  IF e = None
                    THEN /\ library' = [none |-> FALSE, md5 |-> md5]
                         /\ pc' = "pool" /\ UNCHANGED <<exc, stopped, upload_ret>>
                    ELSE /\ Stop(e) /\ upload_ret' = "raised"
                         /\ UNCHANGED library
       ELSE /\ pc' = "pool"
            /\ UNCHANGED <<library, calls, exc, stopped, upload_ret>>
    /\ catalog' = NoCatalog
    /\ UNCHANGED <<args, session, filetypes, files, library_info, submitted,
                   task, results>>

\* the duplicate check made while dispatching: a duplicate gets its result
\* without ever being a pending call of the pool
Submit_dedupFirst ==
    /\ pc = "pool" /\ ~AllSubmitted
    /\ LET p == Sorted(files)[Len(submitted) + 1]
       IN  /\ submitted' = Append(submitted, p)
           /\ \E bytes \in Contents :
               IF ~library.none /\ hexdigest(bytes) \in library.md5
               THEN task' = [task EXCEPT ![p].pc = "done", ![p].md5 = hexdigest(bytes),
                                ![p].retval = [result |-> "skipped", info |-> [path |-> p]]]
               ELSE task' = [task EXCEPT ![p].pc = "pending"]
    /\ UNCHANGED <<args, pc, exc, stopped, session, filetypes, files, catalog, library_info,
                   library, results, upload_ret, calls>>

\* line 239: executor.submit for the next path of sorted(files)
Submit ==
    /\ pc = "pool" /\ ~AllSubmitted
    /\ LET p == Sorted(files)[Len(submitted) + 1]
       IN  /\ submitted' = Append(submitted, p)
           /\ task' = [task EXCEPT ![p].pc = "pending"]
    /\ UNCHANGED <<args, pc, exc, stopped, session, filetypes, files, catalog, library_info,
                   library, results, upload_ret, calls>>

\* a pool that starts every call at once
FreeWorker_always == TRUE

\* the pool hands the oldest pending call to a free worker
FreeWorker == Cardinality(Running) < max_workers

TaskStart(p) ==
    /\ pc \in {"pool", "drain"}
    /\ task[p].pc = "pending"
    /\ \A i \in DOMAIN submitted :
        task[submitted[i]].pc = "pending" =>
            \E j \in DOMAIN submitted : submitted[j] = p /\ j <= i
    /\ FreeWorker
    /\ task' = [task EXCEPT ![p].pc = "check"]
    /\ UNCHANGED <<args, pc, exc, stopped, session, filetypes, files, catalog, library_info,
                   library, submitted, results, upload_ret, calls>>

\* ---------------------------------------------------- Uploader._upload_worker
NoResponse == [result |-> "absent", message |-> <<>>]
NoExtra == [name |-> None, id |-> 0]

\* lines 272-286: exception is the exception being handled, or None
_err_result(p, summary, exception, response, extra) ==
    [result |-> "error",
     info |-> [path |-> p, summary |-> summary,
               debug |-> [message |-> exception, response |-> response, extra |-> extra]]]

TaskRaised(e) == [result |-> "raised", exc |-> e]
TaskReturn(t, retval) == [t EXCEPT !.pc = "done", !.retval = retval]

\* lines 215-224: reading the file fails, or its bytes are digested
calc_md5(readable, bytes) == IF readable THEN hexdigest(bytes) ELSE None

\* a membership test that never finds the digest
is_duplicate_never(md5) == FALSE

\* line 289: self.calc_md5(filepath) in library
is_duplicate(md5) == md5 \in library.md5

\* a check that adds each new digest to the set it tests
TaskCheck_remembers(p) ==
    /\ task[p].pc = "check"
    /\ IF library.none
       THEN task' = [task EXCEPT ![p].pc = "upload"] /\ UNCHANGED library
       ELSE \E readable \in BOOLEAN, bytes \in Contents :
            LET md5 == calc_md5(readable, bytes)
            IN  IF md5 = None
                THEN /\ task' = [task EXCEPT ![p] = TaskReturn(@, TaskRaised("OSError"))]
                     /\ UNCHANGED library
                ELSE IF is_duplicate(md5)
                THEN /\ task' = [task EXCEPT ![p] = TaskReturn([@ EXCEPT !.md5 = md5],
                                  [result |-> "skipped", info |-> [path |-> p]])]
                     /\ UNCHANGED library
                ELSE /\ task' = [task EXCEPT ![p].pc = "upload", ![p].md5 = md5]
                     /\ library' = [library EXCEPT !.md5 = @ \cup {md5}]
    /\ UNCHANGED <<args, pc, exc, stopped, session, filetypes, files, catalog, library_info,
                   submitted, results, upload_ret, calls>>

\* lines 288-290: calc_md5 reads the file, outside every try
TaskCheck(p) ==
    /\ task[p].pc = "check"
    /\ IF library.none
       THEN task' = [task EXCEPT ![p].pc = "upload"]
       ELSE \E readable \in BOOLEAN, bytes \in Contents :
            LET md5 == calc_md5(readable, bytes)
            IN  IF md5 = None
                THEN task' = [task EXCEPT ![p] = TaskReturn(@, TaskRaised("OSError"))]
                ELSE IF is_duplicate(md5)
                THEN task' = [task EXCEPT ![p] = TaskReturn([@ EXCEPT !.md5 = md5],
                                  [result |-> "skipped", info |-> [path |-> p]])]
                ELSE task' = [task EXCEPT ![p].pc = "upload", ![p].md5 = md5]
    /\ UNCHANGED <<args, pc, exc, stopped, session, filetypes, files, catalog, library_info,
                   library, submitted, results, upload_ret, calls>>

\* the responses an upload may get: no "result", a false one, or a true one
\* with or without a message
UploadResponses ==
    {[result |-> "missing", message |-> <<>>], [result |-> "false", message |-> <<>>],
     [result |-> "true", message |-> <<>>]}
    \cup {[result |-> "true", message |-> m] : m \in Messages}

AfterUpload_playlistsFirst(t, p) ==
    IF library_info.playlists # <<>> THEN [t EXCEPT !.pc = "playlist", !.next = 1]
    ELSE IF library_info.tags # <<>> THEN [t EXCEPT !.pc = "tag", !.next = 1]
    ELSE TaskReturn(t, [result |-> "uploaded", info |-> [path |-> p, id |-> t.track_id]])

\* where the task goes once the track id is known (lines 321, 331, 341)
AfterUpload(t, p) ==
    IF library_info.tags # <<>> THEN [t EXCEPT !.pc = "tag", !.next = 1]
    ELSE IF library_info.playlists # <<>> THEN [t EXCEPT !.pc = "playlist", !.next = 1]
    ELSE TaskReturn(t, [result |-> "uploaded", info |-> [path |-> p, id |-> t.track_id]])

\* lines 292-313
TaskUpload(p) ==
    /\ task[p].pc = "upload"
    /\ \E readable \in BOOLEAN, ok \in BOOLEAN, jsoned \in UploadResponses :
        LET t == task[p]
            got == IF ok THEN jsoned ELSE NoResponse
            sent == [t EXCEPT !.uploads = @ + 1, !.jsoned = got]
        IN  IF ~readable
            THEN task' = [task EXCEPT ![p] = TaskReturn(t,
                     _err_result(p, "File upload request error.", "OSError",
                                 NoResponse, NoExtra))]
            ELSE IF _request([ok |-> ok, result |-> jsoned.result], FALSE) # None
            THEN task' = [task EXCEPT ![p] = TaskReturn(sent,
                     _err_result(p, "File upload request error.", "HTTPError",
                                 NoResponse, NoExtra))]
            ELSE IF jsoned.result = "missing"
            THEN task' = [task EXCEPT ![p] = TaskReturn(sent, TaskRaised("KeyError"))]
            ELSE IF jsoned.result = "false"
            THEN task' = [task EXCEPT ![p] = TaskReturn(sent,
                     _err_result(p, "File upload failed.", None, jsoned, NoExtra))]
            ELSE IF jsoned.message = <<>>
            THEN task' = [task EXCEPT ![p] = TaskReturn(sent, TaskRaised("KeyError"))]
            ELSE IF ~TRACK_ID_RE_match(jsoned.message)
            THEN task' = [task EXCEPT ![p] = TaskReturn(sent,
                     _err_result(p, "Unexpected message format. Maybe it's changed?",
                                 None, jsoned, NoExtra))]
            ELSE task' = [task EXCEPT ![p] =
                     AfterUpload([sent EXCEPT !.track_id = TrackIdOf(jsoned.message)], p)]
    /\ UNCHANGED <<args, pc, exc, stopped, session, filetypes, files, catalog, library_info,
                   library, submitted, results, upload_ret, calls>>

\* a false result taken for a success
ApplyOutcome_lenient(resp) ==
    IF _request(resp, FALSE) # None THEN [failed |-> TRUE, exception |-> "HTTPError"]
    ELSE IF resp.result = "missing" THEN [failed |-> TRUE, exception |-> "KeyError"]
    ELSE [failed |-> FALSE, exception |-> None]

\* what a tag or playlist call ends in: None, or the summary's kind and the
\* exception caught (lines 322-327, 332-337; check_result=False)
ApplyOutcome(resp) ==
    IF _request(resp, FALSE) # None THEN [failed |-> TRUE, exception |-> "HTTPError"]
    ELSE IF resp.result = "missing" THEN [failed |-> TRUE, exception |-> "KeyError"]
    ELSE IF resp.result = "false" THEN [failed |-> TRUE, exception |-> None]
    ELSE [failed |-> FALSE, exception |-> None]

\* the two ids in each other's place
Applied_swapped(id, track, resp) ==
    [id |-> track, track |-> id, done |-> resp.ok /\ resp.result = "true"]

\* lines 323 and 333: the request carries the tag or playlist id and the
\* track id; it is done when answered with a true result
Applied(id, track, resp) ==
    [id |-> id, track |-> track, done |-> resp.ok /\ resp.result = "true"]

\* a failed tag request sent again
TaskTag_retry(p) ==
    /\ task[p].pc = "tag"
    /\ \E resp \in Statuses :
        LET t == task[p]
            item == library_info.tags[t.next]
            sent == [t EXCEPT !.tagged = Append(@, Applied(item[2], t.track_id, resp))]
            out == ApplyOutcome(resp)
        IN  IF out.failed
            THEN task' = [task EXCEPT ![p] = sent]
            ELSE IF t.next < Len(library_info.tags)
            THEN task' = [task EXCEPT ![p] = [sent EXCEPT !.next = @ + 1]]
            ELSE task' = [task EXCEPT ![p] =
                     IF library_info.playlists # <<>>
                     THEN [sent EXCEPT !.pc = "playlist", !.next = 1]
                     ELSE TaskReturn(sent, [result |-> "uploaded",
                              info |-> [path |-> p, id |-> t.track_id]])]
    /\ UNCHANGED <<args, pc, exc, stopped, session, filetypes, files, catalog, library_info,
                   library, submitted, results, upload_ret, calls>>

\* lines 321-327
TaskTag(p) ==
    /\ task[p].pc = "tag"
    /\ \E resp \in Statuses :
        LET t == task[p]
            item == library_info.tags[t.next]
            sent == [t EXCEPT !.tagged = Append(@, Applied(item[2], t.track_id, resp))]
            out == ApplyOutcome(resp)
            extra == [name |-> item[1], id |-> item[2]]
        IN  IF out.failed
            THEN task' = [task EXCEPT ![p] = TaskReturn(sent,
                     _err_result(p, IF out.exception = None THEN "Failed to apply tag."
                                    ELSE "Tag track request error.",
                                 out.exception, NoResponse, extra))]
            ELSE IF t.next < Len(library_info.tags)
            THEN task' = [task EXCEPT ![p] = [sent EXCEPT !.next = @ + 1]]
            ELSE task' = [task EXCEPT ![p] =
                     IF library_info.playlists # <<>>
                     THEN [sent EXCEPT !.pc = "playlist", !.next = 1]
                     ELSE TaskReturn(sent, [result |-> "uploaded",
                              info |-> [path |-> p, id |-> t.track_id]])]
    /\ UNCHANGED <<args, pc, exc, stopped, session, filetypes, files, catalog, library_info,
                   library, submitted, results, upload_ret, calls>>

\* lines 331-341
TaskPlaylist(p) ==
    /\ task[p].pc = "playlist"
    /\ \E resp \in Statuses :
        LET t == task[p]
            item == library_info.playlists[t.next]
            sent == [t EXCEPT !.appended = Append(@, Applied(item[2], t.track_id, resp))]
            out == ApplyOutcome(resp)
            extra == [name |-> item[1], id |-> item[2]]
        IN  IF out.failed
            THEN task' = [task EXCEPT ![p] = TaskReturn(sent,
                     _err_result(p, IF out.exception = None THEN "Failed to add to playlist."
                                    ELSE "Add to playlist request error.",
                                 out.exception, NoResponse, extra))]
            ELSE IF t.next < Len(library_info.playlists)
            THEN task' = [task EXCEPT ![p] = [sent EXCEPT !.next = @ + 1]]
            ELSE task' = [task EXCEPT ![p] = TaskReturn(sent, [result |-> "uploaded",
                              info |-> [path |-> p, id |-> t.track_id]])]
    /\ UNCHANGED <<args, pc, exc, stopped, session, filetypes, files, catalog, library_info,
                   library, submitted, results, upload_ret, calls>>

\* lines 243-245: as_completed yields a finished promise; result() re-raises
\* what the task raised, and the with block is then left with the exception
Collect(p) ==
    /\ pc = "pool" /\ AllSubmitted
    /\ task[p].pc = "done"
    /\ task' = [task EXCEPT ![p].pc = "collected"]
    /\ LET retval == task[p].retval
       IN  IF retval.result = "raised"
           THEN /\ pc' = "drain" /\ exc' = retval.exc
                /\ UNCHANGED results
           ELSE /\ results' = [results EXCEPT ![retval.result] = Append(@, retval.info)]
                /\ UNCHANGED <<pc, exc>>
    /\ UNCHANGED <<args, stopped, session, filetypes, files, catalog, library_info,
                   library, submitted, upload_ret, calls>>

\* a loop that stops reading promises after the first one
Return_early ==
    /\ pc = "pool" /\ AllSubmitted
    /\ \E p \in files : task[p].pc = "collected"
    /\ pc' = "done" /\ upload_ret' = "returned"
    /\ UNCHANGED <<args, exc, stopped, session, filetypes, files, catalog, library_info,
                   library, submitted, task, results, calls>>

\* lines 238 and 246-269: the with block ends once every promise is read,
\* the summary is printed and the aggregate returned
Return ==
    /\ pc = "pool" /\ AllSubmitted
    /\ \A p \in files : task[p].pc = "collected"
    /\ pc' = "done" /\ upload_ret' = "returned"
    /\ UNCHANGED <<args, exc, stopped, session, filetypes, files, catalog, library_info,
                   library, submitted, task, results, calls>>

\* a shutdown that does not wait
Drained_nowait ==
    /\ pc = "drain"
    /\ pc' = "done" /\ upload_ret' = "raised" /\ stopped' = "pool"
    /\ UNCHANGED <<args, exc, session, filetypes, files, catalog, library_info,
                   library, submitted, task, results, calls>>

\* line 238: leaving the with block by an exception calls
\* executor.shutdown(wait=True), which runs every submitted call to its end
Drained ==
    /\ pc = "drain"
    /\ \A p \in files : p \in Finished
    /\ pc' = "done" /\ upload_ret' = "raised" /\ stopped' = "pool"
    /\ UNCHANGED <<args, exc, session, filetypes, files, catalog, library_info,
                   library, submitted, task, results, calls>>

Next ==
    \/ Login
    \/ SupportedFiletypes
    \/ Discover
    \/ Confirm
    \/ LibraryRequest
    \/ LoadTags
    \/ LoadPlaylists
    \/ FetchLibrary
    \/ Submit
    \/ \E p \in Paths : TaskStart(p)
    \/ \E p \in Paths : TaskCheck(p)
    \/ \E p \in Paths : TaskUpload(p)
    \/ \E p \in Paths : TaskTag(p)
    \/ \E p \in Paths : TaskPlaylist(p)
    \/ \E p \in Paths : Collect(p)
    \/ Return
    \/ Drained

Spec == Init /\ [][Next]_vars

\* ------------------------------------------------------------- scheduling
\* the main thread runs process and upload to their end: every request it
\* makes returns or fails, and as_completed hands over each finished promise
MainStep ==
    \/ Login \/ SupportedFiletypes \/ Discover \/ Confirm
    \/ LibraryRequest \/ LoadTags \/ LoadPlaylists
    \/ FetchLibrary \/ Submit
    \/ \E p \in Paths : Collect(p)
    \/ Return \/ Drained

\* a worker of the pool runs the call it took to its end: every request and
\* file read of _upload_worker returns or fails
WorkerStep(p) ==
    TaskStart(p) \/ TaskCheck(p) \/ TaskUpload(p) \/ TaskTag(p) \/ TaskPlaylist(p)

Fairness == WF_vars(MainStep) /\ \A p \in Paths : WF_vars(WorkerStep(p))

SpecFair == Spec /\ Fairness

\* ------------------------------- load_tags and load_playlists on their own
\* a fetched library and two lists of names, of any shape within the bounds
InitResolve ==
    /\ skip_duplicates = TRUE /\ parallel = TRUE
    /\ tag_names \in SeqsUpTo(Names, MaxNames)
    /\ playlist_names \in SeqsUpTo(Names, MaxNames)
    /\ parent_dirs = <<0>> /\ fs = RunFs
    /\ pc = "load_tags" /\ exc = None /\ stopped = None /\ session = TRUE
    /\ filetypes = {} /\ files = {}
    /\ \E tags \in TagCatalogs(MaxCatalog), playlists \in PlaylistCatalogs(MaxCatalog) :
        catalog = [tags |-> tags, playlists |-> playlists]
    /\ library_info = NoInfo /\ library = NoLibrary
    /\ submitted = <<>> /\ task = [p \in Paths |-> IdleTask]
    /\ results = [uploaded |-> <<>>, skipped |-> <<>>, error |-> <<>>]
    /\ upload_ret = None /\ calls = [NoCalls EXCEPT !.library = 1]

NextResolve == LoadTags \/ LoadPlaylists

SpecResolve == InitResolve /\ [][NextResolve]_vars

\* ------------------------------------------------ discover_files on its own
\* every tree of directories, every placement and naming of the files, every
\* list of root directories and every set of allowed extensions
InitDiscover ==
    /\ skip_duplicates = TRUE /\ parallel = TRUE
    /\ tag_names = <<>> /\ playlist_names = <<>>
    /\ parent_dirs \in SeqsUpTo(Dirs, MaxRoots)
    /\ \E tree \in Trees, dir \in [Paths -> Dirs], name \in [Paths -> FileNames] :
        fs = [parent |-> tree, dir |-> dir, name |-> name]
    /\ pc = "discover" /\ exc = None /\ stopped = None /\ session = TRUE
    /\ filetypes \in SUBSET (Extensions \cup {".MP3"})
    /\ files = {} /\ catalog = NoCatalog
    /\ library_info = NoInfo /\ library = NoLibrary
    /\ submitted = <<>> /\ task = [p \in Paths |-> IdleTask]
    /\ results = [uploaded |-> <<>>, skipped |-> <<>>, error |-> <<>>]
    /\ upload_ret = None /\ calls = NoCalls

NextDiscover == Discover

SpecDiscover == InitDiscover /\ [][NextDiscover]_vars

\* lines 367-372: process returning ends the interpreter with status 0, an
\* uncaught exception with status 1
ExitStatus == IF exc = None THEN 0 ELSE 1

\* ============================================================ properties
Terminal(p) == task[p].pc \in {"done", "collected"}
BucketPaths(b) == [i \in DOMAIN results[b] |-> results[b][i].path]
AllBucketPaths == BucketPaths("uploaded") \o BucketPaths("skipped") \o BucketPaths("error")
ApplyCalls(p) == task[p].tagged \o task[p].appended
Count(s, x) == Cardinality({i \in DOMAIN s : s[i] = x})

\* C1: a failure while processing one file never aborts the batch: no task
\* ends by an exception of its own, and upload never raises once it has
\* dispatched files.
C1_FailureNeverAbortsBatch ==
    /\ \A p \in Paths : task[p].retval.result # "raised"
    /\ (submitted # <<>> => upload_ret # "raised")

\* C2: when upload returns, the three buckets are pairwise disjoint by path
\* and hold every candidate file exactly once; a file that was not skipped is
\* in exactly one of uploaded and error.
C2_BucketsPartitionFiles ==
    upload_ret = "returned" =>
        /\ Range(AllBucketPaths) = files
        /\ Len(AllBucketPaths) = Cardinality(files)
        /\ \A p \in files :
            p \notin Range(BucketPaths("skipped")) =>
                (p \in Range(BucketPaths("uploaded"))) # (p \in Range(BucketPaths("error")))

C2_Witness ==
    /\ upload_ret = "returned"
    /\ Len(results.uploaded) = 1 /\ Len(results.error) = 1

\* C3: with skip_duplicates, a file whose fingerprint is in the fetched set
\* ends skipped, with no upload, tag or playlist request issued for it, and
\* only such a file is ever skipped.
C3_DuplicatesSkipped ==
    skip_duplicates =>
        \A p \in Paths :
            /\ (task[p].md5 # None /\ task[p].md5 \in library.md5) =>
                /\ task[p].retval.result = "skipped"
                /\ task[p].uploads = 0 /\ ApplyCalls(p) = <<>>
                /\ (upload_ret = "returned" => p \in Range(BucketPaths("skipped")))
            /\ (task[p].retval.result = "skipped" \/ p \in Range(BucketPaths("skipped"))) =>
                (task[p].md5 # None /\ task[p].md5 \in library.md5)

C3_Witness ==
    /\ upload_ret = "returned" /\ skip_duplicates
    /\ Len(results.skipped) = 1 /\ Len(results.uploaded) = 1

\* C4: once upload has returned or raised, no submitted task is pending or
\* running; when it returns, every candidate's task ended uploaded, skipped
\* or error.
C4_PoolDrained ==
    /\ upload_ret # None => \A p \in Range(submitted) : Terminal(p)
    /\ upload_ret = "returned" =>
        \A p \in files :
            /\ p \in Range(submitted)
            /\ task[p].retval.result \in {"uploaded", "skipped", "error"}

C4_Witness ==
    /\ upload_ret = "raised"
    /\ \E p, q \in files :
        /\ task[p].retval.result = "raised"
        /\ task[q].pc = "done" /\ task[q].retval.result = "error"

\* C5: a tag or playlist call that fails is the last call issued for its
\* file, and the file's result is Error although its upload succeeded.
C5_ApplyFailureEndsTask ==
    \A p \in Paths :
        \A i \in DOMAIN ApplyCalls(p) :
            ~ApplyCalls(p)[i].done =>
                /\ i = Len(ApplyCalls(p))
                /\ Terminal(p)
                /\ task[p].retval.result = "error"
                /\ task[p].uploads = 1 /\ task[p].jsoned.result = "true"

C5_Witness ==
    \E p \in Paths :
        /\ library_info.playlists # <<>>
        /\ Len(task[p].tagged) = 1 /\ ~task[p].tagged[1].done
        /\ task[p].appended = <<>>
        /\ task[p].retval.result = "error"

\* C6: load_tags and load_playlists complete for every catalog and every list
\* of names, and map exactly the requested names, each to the id of a catalog
\* entry of that name or to a created id.
C6_ResolutionMapsEveryName ==
    /\ exc # "KeyError(name)"
    /\ pc \in {"load_playlists", "upload"} =>
        /\ DictKeys(library_info.tags) = Range(tag_names)
        /\ \A i \in DOMAIN library_info.tags :
            LET name == library_info.tags[i][1]
                id == library_info.tags[i][2]
            IN  IF id <= Len(catalog.tags) THEN catalog.tags[id] = name
                ELSE <<"createtag", name>> \in Range(calls.created)
    /\ pc = "upload" =>
        /\ DictKeys(library_info.playlists) = Range(playlist_names)
        /\ \A i \in DOMAIN library_info.playlists :
            LET name == library_info.playlists[i][1]
                id == library_info.playlists[i][2]
            IN  IF id <= Len(catalog.playlists.lists)
                THEN name \in Range(catalog.playlists.lists[id])
                ELSE <<"createplaylist", name>> \in Range(calls.created)

\* C7: when login, the filetype fetch or the tag/playlist resolution fails,
\* the run is over and has issued no fingerprint-set fetch, no upload and no
\* tag or playlist call.
SetupPhases == {"login", "filetypes", "load_library", "load_tags", "load_playlists"}
C7_SetupFailureStopsRun ==
    stopped \in SetupPhases =>
        /\ pc = "done"
        /\ calls.md5 = 0 /\ submitted = <<>>
        /\ \A p \in Paths : task[p].uploads = 0 /\ ApplyCalls(p) = <<>>

C7_Witness ==
    /\ stopped = "load_playlists" /\ exc = "ValueError"
    /\ calls.created # <<>>

\* C8: the tasks running at any moment never outnumber the pool's workers:
\* one when parallel is off, the default size when it is on.
C8_BoundedConcurrency ==
    /\ Cardinality(Running) <= max_workers
    /\ ~parallel => Cardinality(Running) <= 1
    /\ parallel => Cardinality(Running) <= DefaultWorkers

C8_Witness ==
    /\ ~parallel
    /\ \E p, q \in Paths : p \in Running /\ task[q].pc = "pending"

\* C9 as written: a file whose fingerprint is in the fetched set is never
\* submitted to the pool.
C9_DuplicateNeverSubmitted ==
    skip_duplicates =>
        \A p \in Paths :
            (task[p].md5 # None /\ task[p].md5 \in library.md5) => p \notin Range(submitted)

\* C9 as amended: every candidate is submitted to the pool, duplicate or not;
\* a file is fingerprinted and classified as skipped only by its own pool
\* task, as that task's first step and before any upload request for it.
C9_DuplicateCheckedInsideTask ==
    /\ [](\A p \in Paths : (task[p].pc # "none") <=> (p \in Range(submitted)))
    /\ [](upload_ret = "returned" => Range(submitted) = files)
    /\ [][\A p \in Paths :
            (\/ task[p].md5 = None /\ task'[p].md5 # None
             \/ task[p].retval.result # "skipped" /\ task'[p].retval.result = "skipped")
            => /\ p \in Range(submitted)
               /\ task[p].pc = "check" /\ p \in Running
               /\ task[p].uploads = 0]_vars

C9_Witness ==
    \E p \in Paths :
        /\ p \in Range(submitted) /\ task[p].pc = "done"
        /\ task[p].retval.result = "skipped"
        /\ task[p].md5 \in library.md5

\* C10: an upload answered with success and a message that does not match the
\* track-id pattern ends as an error that keeps the raw response, with no tag
\* or playlist call.
C10_BadMessageIsError ==
    \A p \in Paths :
        (task[p].jsoned.result = "true" /\ task[p].jsoned.message \in {MsgNewWording, MsgNoPeriod})
        => /\ Terminal(p)
           /\ task[p].retval.result = "error"
           /\ task[p].retval.info.debug.response = task[p].jsoned
           /\ ApplyCalls(p) = <<>>

C10_Witness ==
    /\ upload_ret = "returned"
    /\ \E p, q \in files :
        /\ task[p].jsoned.message = MsgNoPeriod /\ task[p].retval.result = "error"
        /\ task[q].retval.result = "uploaded"


\* C11: the exit status is 0 when the run completes normally, and non-zero
\* when it stops because login or the account-info call failed.
C11_ExitStatus ==
    pc = "done" =>
        /\ (upload_ret = "returned" \/ stopped = "confirm") => ExitStatus = 0
        /\ stopped \in {"login", "filetypes"} => ExitStatus # 0


\* C12 (as stated): after a resolution that created a name, a second
\* resolution of the same names over the same fetched library returns the
\* same ids and issues no create-call.
C12_SecondResolutionReuses ==
    /\ pc = "load_playlists" =>
        \A out \in load_tags(catalog, tag_names) :
            /\ out.created = <<>>
            /\ out.exc = None => out.dict = library_info.tags
    /\ pc = "upload" =>
        \A out \in load_playlists(catalog, playlist_names) :
            /\ out.created = <<>>
            /\ out.exc = None => out.dict = library_info.playlists

\* C12 (amended): a run resolves the names once; a requested name absent
\* from the catalog gets exactly one create-call and a new id, no create-call
\* is issued once the resolution is over, and every file's tag and playlist
\* calls carry the ids of that one resolution.
C12_ResolvedOnceAndReused ==
    /\ [](pc \in {"load_playlists", "upload"} =>
            \A name \in Range(tag_names) \ Range(catalog.tags) :
                /\ Count(calls.created, <<"createtag", name>>) = 1
                /\ \E i \in DOMAIN library_info.tags :
                    /\ library_info.tags[i][1] = name
                    /\ library_info.tags[i][2] > Len(catalog.tags))
    /\ [](pc = "upload" =>
            \A name \in Range(playlist_names) :
                (\A i \in DOMAIN catalog.playlists.lists :
                    name \notin Range(catalog.playlists.lists[i])) =>
                /\ Count(calls.created, <<"createplaylist", name>>) = 1
                /\ \E i \in DOMAIN library_info.playlists :
                    /\ library_info.playlists[i][1] = name
                    /\ library_info.playlists[i][2] > Len(catalog.playlists.lists))
    /\ [][pc \notin {"load_tags", "load_playlists"} => calls'.created = calls.created]_vars
    /\ [](\A p \in Paths :
            /\ \A i \in DOMAIN task[p].tagged :
                task[p].tagged[i].id = library_info.tags[i][2]
            /\ \A i \in DOMAIN task[p].appended :
                task[p].appended[i].id = library_info.playlists[i][2])

C12_Witness ==
    /\ <<"createtag", "Rock">> \in Range(calls.created)
    /\ \A p \in Paths :
        /\ task[p].tagged # <<>>
        /\ task[p].tagged[1].id = library_info.tags[1][2]
        /\ task[p].tagged[1].done


\* C13: within one resolution call no create-call is issued for a name the
\* catalog contains and none is issued twice for one name; when the call
\* returns, the create-calls are as many as the distinct requested names
\* absent from the catalog, and a repeated requested name has a single id.
CreateCalls(mode) == SelectSeq(calls.created, LAMBDA c : c[1] = mode)
PlaylistNames == {n \in Names : \E i \in DOMAIN catalog.playlists.lists :
                                    n \in Range(catalog.playlists.lists[i])}
C13_CreateCallsMatchMissing ==
    /\ \A n \in Names :
        /\ Count(calls.created, <<"createtag", n>>) <= 1
        /\ Count(calls.created, <<"createplaylist", n>>) <= 1
        /\ n \in Range(catalog.tags) => <<"createtag", n>> \notin Range(calls.created)
        /\ n \in PlaylistNames => <<"createplaylist", n>> \notin Range(calls.created)
    /\ Range(CreateCalls("createtag")) \subseteq {<<"createtag", n>> : n \in Range(tag_names)}
    /\ Range(CreateCalls("createplaylist")) \subseteq
            {<<"createplaylist", n>> : n \in Range(playlist_names)}
    /\ pc \in {"load_playlists", "upload"} =>
        /\ Len(CreateCalls("createtag")) =
                Cardinality(Range(tag_names) \ Range(catalog.tags))
        /\ \A n \in Range(tag_names) : Count([i \in DOMAIN library_info.tags |->
                                                library_info.tags[i][1]], n) = 1
    /\ pc = "upload" =>
        /\ Len(CreateCalls("createplaylist")) =
                Cardinality(Range(playlist_names) \ PlaylistNames)
        /\ \A n \in Range(playlist_names) : Count([i \in DOMAIN library_info.playlists |->
                                                    library_info.playlists[i][1]], n) = 1

C13_Witness ==
    /\ pc = "upload"
    /\ tag_names = <<"Rock", "Rock">> /\ catalog.tags = <<"Jazz">>
    /\ calls.created[1] = <<"createtag", "Rock">>
    /\ playlist_names = <<"Rock", "Jazz">> /\ PlaylistNames = {"Rock"}
    /\ Len(calls.created) = 2


\* C14: discovery returns exactly the regular files at any depth under one
\* of the roots whose extension, leading dot included and compared exactly,
\* is in the allowed set; a file under two roots is one element of the set.
RECURSIVE Ancestors(_)
Ancestors(d) == IF d = 0 THEN {0} ELSE {d} \cup Ancestors(fs.parent[d])
ExtensionOf(name) ==
    CASE name = <<"a", ".mp3">> -> ".mp3"
      [] name = <<"a", ".MP3">> -> ".MP3"
      [] name = <<"a", ".flac">> -> ".flac"
      [] name = <<"a", ".flac", ".mp3">> -> ".mp3"
      [] OTHER -> "none"
C14_DiscoveryIsExact ==
    pc = "confirm" =>
        files = {p \in Paths : /\ Ancestors(fs.dir[p]) \cap Range(parent_dirs) # {}
                               /\ ExtensionOf(fs.name[p]) \in filetypes}

C14_Witness ==
    /\ pc = "confirm"
    /\ parent_dirs = <<0, 1>> /\ fs.parent[2] = 1
    /\ fs.dir[1] = 2 /\ fs.name[1] = <<"a", ".mp3">>
    /\ fs.dir[2] = 1 /\ fs.name[2] = <<"a", ".MP3">>
    /\ filetypes = {".mp3"}
    /\ files = {1}


\* C15: the phases run in the order login, filetype fetch, discovery,
\* confirmation, resolution, upload; when the operator does not proceed no
\* library fetch, create-call, fingerprint fetch or upload happens; when the
\* operator proceeds the resolution runs once and is complete before the
\* first task is submitted.
PhaseRank(phase) ==
    CASE phase = "login" -> 1 [] phase = "filetypes" -> 2 [] phase = "discover" -> 3
      [] phase = "confirm" -> 4 [] phase = "load_library" -> 5 [] phase = "load_tags" -> 6
      [] phase = "load_playlists" -> 7 [] phase = "upload" -> 8 [] phase = "pool" -> 9
      [] phase = "drain" -> 10 [] phase = "done" -> 11
NothingSent ==
    /\ calls = NoCalls /\ submitted = <<>>
    /\ \A p \in Paths : task[p] = IdleTask
C15_PhasesInOrder ==
    /\ [][pc' # pc => pc' = "done" \/ PhaseRank(pc') = PhaseRank(pc) + 1]_vars
    /\ [](PhaseRank(pc) <= 4 \/ stopped \in {"login", "filetypes", "discover", "confirm"}
            => NothingSent)
    /\ [](calls.library <= 1)
    /\ [](calls.created # <<>> \/ calls.md5 > 0 \/ submitted # <<>> => calls.library = 1)
    /\ [](submitted # <<>> =>
            /\ PhaseRank(pc) >= 9
            /\ DictKeys(library_info.tags) = Range(tag_names)
            /\ DictKeys(library_info.playlists) = Range(playlist_names))
    /\ [](\A p \in Paths : task[p] # IdleTask => p \in Range(submitted))

C15_Witness ==
    /\ pc = "done" /\ upload_ret = "returned"
    /\ calls.library = 1 /\ Len(calls.created) = 2
    /\ Len(results.uploaded) = 2


\* C16: a file goes Discovered -> Skipped, or Discovered -> Uploading ->
\* (Uploaded) -> Tagging -> PlaylistAppending -> Done, or ends Errored; no
\* tag call is made before the upload succeeded and the track id was
\* extracted, no playlist call before every tag call succeeded, and a file
\* that is Skipped, Done or Errored gets no further request.
FileState(t) ==
    CASE t.pc \in {"none", "pending", "check"} -> "Discovered"
      [] t.pc = "upload" -> "Uploading"
      [] t.pc = "tag" -> "Tagging"
      [] t.pc = "playlist" -> "PlaylistAppending"
      [] OTHER -> IF t.retval.result = "skipped" THEN "Skipped"
                  ELSE IF t.retval.result = "uploaded" THEN "Done"
                  ELSE "Errored"
FileEdges ==
    {<<"Discovered", "Skipped">>, <<"Discovered", "Uploading">>,
     <<"Uploading", "Tagging">>, <<"Uploading", "PlaylistAppending">>,
     <<"Uploading", "Done">>, <<"Tagging", "PlaylistAppending">>, <<"Tagging", "Done">>,
     <<"PlaylistAppending", "Done">>}
    \cup {<<s, "Errored">> : s \in {"Discovered", "Uploading", "Tagging", "PlaylistAppending"}}
Requests(t) == <<t.uploads, t.tagged, t.appended>>
UploadSucceeded(t) ==
    /\ t.uploads = 1 /\ t.jsoned.result = "true"
    /\ \E d \in DigitTokens : t.jsoned.message = MsgUploaded(d) /\ t.track_id = DigitVal(d)
C16_FileLifecycle ==
    /\ [][\A p \in Paths :
            /\ FileState(task'[p]) # FileState(task[p]) =>
                <<FileState(task[p]), FileState(task'[p])>> \in FileEdges
            /\ FileState(task[p]) \in {"Skipped", "Done", "Errored"} =>
                Requests(task'[p]) = Requests(task[p])]_vars
    /\ [](\A p \in Paths :
            /\ FileState(task[p]) \in {"Tagging", "PlaylistAppending", "Done"}
                    \/ task[p].tagged # <<>> \/ task[p].appended # <<>>
                => UploadSucceeded(task[p])
            /\ FileState(task[p]) = "PlaylistAppending" \/ task[p].appended # <<>> =>
                /\ Len(task[p].tagged) = Len(library_info.tags)
                /\ \A i \in DOMAIN task[p].tagged : task[p].tagged[i].done
            /\ FileState(task[p]) = "Skipped" => Requests(task[p]) = <<0, <<>>, <<>>>>)

C16_Witness ==
    /\ FileState(task[1]) = "Done"
    /\ Len(task[1].tagged) = 1 /\ Len(task[1].appended) = 1
    /\ FileState(task[2]) = "Errored"
    /\ Len(task[2].tagged) = 1 /\ task[2].appended = <<>>


\* C17: a file is in the uploaded bucket only if its upload succeeded, its
\* track id was extracted from the message, and for every resolved tag and
\* every resolved playlist one request carrying that track id was answered
\* with a true result; the recorded track id is the one those calls used.
AppliedAll(calls_made, dict, track) ==
    /\ Len(calls_made) = Len(dict)
    /\ \A i \in DOMAIN dict :
        calls_made[i] = [id |-> dict[i][2], track |-> track, done |-> TRUE]
C17_UploadedMeansAllApplied ==
    /\ \A p \in Paths :
        task[p].retval.result = "uploaded" =>
            /\ task[p].uploads = 1 /\ task[p].jsoned.result = "true"
            /\ \E d \in DigitTokens :
                /\ task[p].jsoned.message = MsgUploaded(d)
                /\ task[p].retval.info = [path |-> p, id |-> DigitVal(d)]
            /\ AppliedAll(task[p].tagged, library_info.tags, task[p].retval.info.id)
            /\ AppliedAll(task[p].appended, library_info.playlists, task[p].retval.info.id)
    /\ \A i \in DOMAIN results.uploaded :
        LET p == results.uploaded[i].path
        IN  /\ task[p].retval.result = "uploaded"
            /\ task[p].retval.info = results.uploaded[i]

C17_Witness ==
    /\ Len(results.uploaded) = 2
    /\ results.uploaded[1].id = 2 /\ results.uploaded[2].id = 1
    /\ \A p \in Paths : Len(task[p].tagged) = 1 /\ Len(task[p].appended) = 1


\* C18: nothing is retried: a file gets at most one upload request, at most
\* one tag request per tag and one playlist request per playlist, and a
\* failed call ends the file's task with a reported failure.
OncePerId(calls_made, dict) ==
    /\ Len(calls_made) <= Len(dict)
    /\ \A i \in DOMAIN calls_made : calls_made[i].id = dict[i][2]
    /\ \A i, j \in DOMAIN calls_made : i # j => calls_made[i].id # calls_made[j].id
C18_NoRetries ==
    \A p \in Paths :
        LET t == task[p]
            all == t.tagged \o t.appended
        IN  /\ t.uploads <= 1
            /\ OncePerId(t.tagged, library_info.tags)
            /\ OncePerId(t.appended, library_info.playlists)
            /\ t.uploads = 1 /\ t.jsoned.result # "true" =>
                Terminal(p) /\ t.retval.result \in {"error", "raised"} /\ all = <<>>
            /\ \A i \in DOMAIN all :
                ~all[i].done =>
                    i = Len(all) /\ Terminal(p) /\ t.retval.result = "error"

C18_Witness ==
    /\ pc = "done" /\ Len(results.error) = 2
    /\ task[1].uploads = 1 /\ task[1].jsoned.result = "false" /\ task[1].tagged = <<>>
    /\ task[2].uploads = 1 /\ Len(task[2].tagged) = 1 /\ ~task[2].tagged[1].done


\* C19: an upload run fetches the remote fingerprint set exactly once, before
\* any task is submitted, if and only if skip_duplicates is true; when it is
\* false there is no fingerprint query, no file is fingerprinted or skipped,
\* and the skipped bucket is empty.
UploadStarted == pc \in {"pool", "drain"} \/ upload_ret # None
C19_FingerprintsFetchedIffSkipping ==
    /\ calls.md5 = IF skip_duplicates /\ UploadStarted THEN 1 ELSE 0
    /\ submitted # <<>> /\ skip_duplicates => ~library.none
    /\ ~skip_duplicates =>
        /\ library = NoLibrary
        /\ results.skipped = <<>>
        /\ \A p \in Paths : task[p].md5 = None /\ task[p].retval.result # "skipped"

C19_Witness ==
    /\ ~skip_duplicates
    /\ pc = "done" /\ upload_ret = "returned"
    /\ Len(results.uploaded) = 2 /\ calls.md5 = 0


\* C20: the files are submitted to the pool in ascending path order; in
\* serial mode the upload requests are issued in ascending path order, a
\* file's task finishing before the next file's task starts.
C20_AscendingSubmission ==
    /\ Range(submitted) \subseteq files
    /\ \A i, j \in DOMAIN submitted : i < j => submitted[i] < submitted[j]
    /\ \A p \in Range(submitted), q \in files : q < p => q \in Range(submitted)
    /\ ~parallel =>
        \A p, q \in files :
            p < q /\ (task[q].pc \notin {"none", "pending"} \/ task[q].uploads > 0)
                => Terminal(p)

C20_Witness ==
    /\ ~parallel
    /\ submitted = <<1, 2>>
    /\ Terminal(1) /\ task[1].uploads = 1
    /\ task[2].pc = "tag" /\ task[2].uploads = 1


\* C21: whether a file is skipped depends only on its own fingerprint and on
\* the set fetched before dispatch: the set does not change during the run,
\* a fingerprinted file is skipped exactly when its fingerprint is in the
\* set, and two files of identical content whose fingerprint is not in the
\* set are both uploaded, whatever the interleaving of their tasks.
Fingerprinted(p) == task[p].md5 # None
Skipped(p) == task[p].retval.result = "skipped"
C21_SkipDependsOnFetchedSetOnly ==
    /\ [][(pc \in {"pool", "drain"}) => library' = library]_vars
    /\ [](\A p \in Paths :
            /\ Skipped(p) => Fingerprinted(p)
            /\ Fingerprinted(p) => (Skipped(p) <=> task[p].md5 \in library.md5))
    /\ [](\A p, q \in Paths :
            Fingerprinted(p) /\ task[q].md5 = task[p].md5 =>
                /\ Skipped(p) <=> Skipped(q)
                /\ task[p].md5 \notin library.md5 =>
                    task[p].pc \notin {"none", "pending", "check"}
                    /\ task[q].pc \notin {"none", "pending", "check"})
    /\ [][\A p \in Paths :
            task[p].md5 \notin library.md5 /\ task[p].pc = "upload"
            /\ task'[p].pc # "upload" /\ task'[p].uploads = 0
                => task'[p].retval.result = "error"]_vars

C21_Witness ==
    /\ parallel /\ ~library.none
    /\ task[1].md5 = "md5A" /\ task[2].md5 = "md5A" /\ "md5A" \notin library.md5
    /\ task[1].uploads = 1 /\ task[2].uploads = 1
    /\ task[1].pc = "tag" /\ task[2].pc = "tag"


\* C22: when every network call and file read returns or fails, every
\* submitted task eventually reaches a terminal state and upload eventually
\* returns its aggregate, in serial and in parallel mode and whatever the
\* mix of successes and failures.
C22_UploadEventuallyReturns ==
    /\ \A p \in Paths : (task[p].pc = "pending") ~> Terminal(p)
    /\ (pc = "pool") ~> (upload_ret = "returned")

====
